---- MODULE Spec2Model ----
(***************************************************************************)
(* webforms: the ValidateForm derive (webforms_derive/src/validate.rs and  *)
(* validate/validators.rs), the HtmlForm field validators                  *)
(* (webforms_derive/src/html/html_validate.rs, webforms/src/html/          *)
(* html_validate.rs) and the HtmlFieldBuilder attribute set                *)
(* (webforms/src/html/html_field.rs, html_attribute.rs).                   *)
(***************************************************************************)
EXTENDS Integers, Sequences, FiniteSets, TLC

(* ------------------------------ bounds -------------------------------- *)
\* #[validate..] rule attributes parsed per struct
MaxAttrs == 2
\* longest string value of a field
MaxStrLen == 4
\* largest integer value of a field
MaxVal == 4
\* longest attribute value a builder call may produce (words and separators)
MaxValueLen == 3

VARIABLES
    pc,            \* where the derive / the generated validate() stands
    ty,            \* value type of the struct's fields: "str" or "int"
    fields,        \* ValidateStruct.fields
    info,          \* the ValidateField being parsed
    regex_tokens,  \* ValidateStruct.regex_tokens (id -> pattern)
    declared,      \* history: the ids the struct's #[validate_regex] registered
    panic_msg,     \* message of the panic that aborted the derive
    code,          \* the token stream impl_validate_macro generated
    form,          \* the record validate() is called on (self)
    v,             \* the Vec<ValidateError> of the generated validate()
    result,        \* what validate() returned: "none", "Ok" or "Err"
    hv,            \* the HtmlValidate parsed from a field's #[html_validate]
    checks,        \* the closures handed to FieldValidator::new
    hvalue,        \* the value FieldValidator::validate is called on
    hret,          \* what FieldValidator::validate returned
    herrors,       \* the caller's errors map (field -> message)
    builder,       \* the HtmlFieldBuilder
    html_field,    \* the HtmlField finish() returned
    last_op,       \* the builder call made last, and what it found in the set
    origin,        \* per attribute identity: the mode in effect when its entry was written
    hform,         \* the HtmlFormBuilder that form() returned
    rejected,      \* history: some validate_field call so far had a rejecting validator
    out            \* the text the last Display::fmt wrote

vvars == <<fields, info, regex_tokens, declared, panic_msg, code, form, v, result>>

hvars == <<hv, checks, hvalue, hret, herrors>>

bvars == <<builder, html_field, last_op, origin, hform, rejected, out>>

(* ------------------------- schema inputs ------------------------------ *)
\* the named fields of the struct that derives ValidateForm
FieldNames == <<"first", "second">>

NumFields == Len(FieldNames)

\* literal arguments of min_length / min_value and max_length / max_value
MinArgs == {2, 3}
MaxArgs == {2, 3}

\* the values rng.gen::<u32>() is abstracted to (a repeat is a collision)
RandIds == {1, 2}

\* the regex a #[validate(regex = "...")] attribute carries
UserPattern == "^a+$"

EmailPattern == "^[a-zA-Z0-9_.+-]+@[a-zA-Z0-9-]+\\.[a-zA-Z0-9-.]+$"

PhonePattern == "^(\\+\\d{1,2}\\s)?\\(?\\d{3}\\)?[\\s.-]?\\d{3}[\\s.-]?\\d{4}$"

EmailId == <<"form_regex_email">>

PhoneId == <<"form_regex_us_phone">>

\* format!("form_regex_{}_{}", field, rng.gen::<u32>())
RegexId(name, rand) == <<"form_regex", name, rand>>

(* ------------------------- field values ------------------------------- *)
RECURSIVE Rep(_, _)
Rep(c, n) == IF n = 0 THEN <<>> ELSE Append(Rep(c, n - 1), c)

StrValues ==
    {Rep("a", n) : n \in 0..MaxStrLen} \cup
    {Append(Rep("a", n - 1), "b") : n \in 1..MaxStrLen}

IntValues == 0..MaxVal

Values(t) == IF t = "str" THEN StrValues ELSE IntValues

Some(x) == [some |-> TRUE, val |-> x]

None == [some |-> FALSE]

(* ---------------- derive(ValidateForm): parsing ----------------------- *)
\* ValidateField::new
NewValidateField(name) == [field |-> name, attrs |-> <<>>, optional |-> FALSE]

NoInfo == [field |-> "-", attrs |-> <<>>, optional |-> FALSE]

NoPanic == [some |-> FALSE]

Panic(msg) == [some |-> TRUE, val |-> msg]

EmptyMap == [k \in {} |-> ""]

ContainsKey(map, k) == k \in DOMAIN map

\* HashMap::insert
Insert(map, k, x) == [j \in DOMAIN map \cup {k} |-> IF j = k THEN x ELSE map[j]]

RECURSIVE SumAttrs(_)
SumAttrs(fs) == IF fs = <<>> THEN 0 ELSE Len(Head(fs).attrs) + SumAttrs(Tail(fs))

\* the attributes parsed so far: the struct's validate_regex entries and the fields' rules
TotalAttrs == Cardinality(declared) + SumAttrs(fields) + Len(info.attrs)

\* the #[validate(...)] metas a field of type t can carry
WordMetas(t) ==
    {[meta |-> "Word", w |-> "optional"]} \cup
    (IF t = "str"
     THEN {[meta |-> "Word", w |-> "email"], [meta |-> "Word", w |-> "phone"]}
     ELSE {})

NameValueMetas(t) ==
    IF t = "str"
    THEN {[meta |-> "NameValue", ident |-> "min_length", lit |-> n] : n \in MinArgs} \cup
         {[meta |-> "NameValue", ident |-> "max_length", lit |-> n] : n \in MaxArgs}
    ELSE {[meta |-> "NameValue", ident |-> "min_value", lit |-> n] : n \in MinArgs} \cup
         {[meta |-> "NameValue", ident |-> "max_value", lit |-> n] : n \in MaxArgs}

RegexMetas(t) ==
    IF t = "str" THEN {[meta |-> "NameValue", ident |-> "regex", lit |-> UserPattern]}
    ELSE {}

\* the id a #[validate_regex(id = "...")] attribute of the struct declares
UserId == <<"user_re">>

\* the #[validate_regex(...)] name/value pairs the struct can carry
ValidateRegexMetas ==
    {[ident |-> UserId, lit |-> UserPattern], [ident |-> EmailId, lit |-> UserPattern]}

\* the #[validate(compiled_regex = "id")] metas a field of type t can carry: the
\* ids a struct can declare, and an id of the form a regex = "..." rule generates
CompiledRegexMetas(t) ==
    IF t = "str"
    THEN {[meta |-> "NameValue", ident |-> "compiled_regex", lit |-> id] :
            id \in {UserId, EmailId, RegexId(FieldNames[1], 1)}}
    ELSE {}

PushAttr(i, rule) == [i EXCEPT !.attrs = Append(@, rule)]

\* parse_validate_regex_attr, Meta::NameValue arm with a string literal
ParseValidateRegexAttr(nv) ==
    /\ pc = "struct"
    /\ nv \in ValidateRegexMetas
    /\ TotalAttrs < MaxAttrs
    /\ IF ~ContainsKey(regex_tokens, nv.ident)
       THEN /\ regex_tokens' = Insert(regex_tokens, nv.ident, nv.lit)
            /\ declared' = declared \cup {nv.ident}
            /\ UNCHANGED <<pc, panic_msg>>
       ELSE /\ pc' = "panic"
            /\ panic_msg' = Panic("ValidateForm: regex with id already defined!")
            /\ UNCHANGED <<regex_tokens, declared>>
    /\ UNCHANGED <<ty, fields, info, code, form, v, result, hvars, bvars>>

\* ValidateStruct::parse: the struct's attributes are done, parse_field_attributes
\* starts with the first field
ParseFieldAttributes ==
    /\ pc = "struct"
    /\ pc' = "parse"
    /\ info' = NewValidateField(FieldNames[1])
    /\ UNCHANGED <<ty, fields, regex_tokens, declared, panic_msg, code, form, v, result,
                   hvars, bvars>>

\* parse_validate_attribute, Meta::Word arm
ParseWord(w) ==
    /\ pc = "parse"
    /\ w \in {m.w : m \in WordMetas(ty)}
    /\ w = "optional" \/ TotalAttrs < MaxAttrs
    /\ IF w = "email"
       THEN /\ regex_tokens' = IF ContainsKey(regex_tokens, EmailId) THEN regex_tokens
                               ELSE Insert(regex_tokens, EmailId, EmailPattern)
            /\ info' = PushAttr(info, [kind |-> "Email", id |-> EmailId])
       ELSE IF w = "phone"
       THEN /\ regex_tokens' = IF ContainsKey(regex_tokens, PhoneId) THEN regex_tokens
                               ELSE Insert(regex_tokens, PhoneId, PhonePattern)
            /\ info' = PushAttr(info, [kind |-> "Phone", id |-> PhoneId])
       ELSE /\ w = "optional"
            /\ info' = [info EXCEPT !.optional = TRUE]
            /\ UNCHANGED regex_tokens
    /\ UNCHANGED <<pc, ty, fields, panic_msg, code, form, v, result, declared, hvars, bvars>>

\* parse_validate_attribute, Meta::NameValue arm with an integer literal
ParseNameValue(nv) ==
    /\ pc = "parse"
    /\ nv \in NameValueMetas(ty)
    /\ TotalAttrs < MaxAttrs
    /\ info' = PushAttr(info,
            [kind |-> CASE nv.ident = "min_length" -> "StringMin"
                        [] nv.ident = "max_length" -> "StringMax"
                        [] nv.ident = "min_value" -> "ValueMin"
                        [] nv.ident = "max_value" -> "ValueMax",
             n |-> nv.lit])
    /\ UNCHANGED <<pc, ty, fields, regex_tokens, panic_msg, code, form, v, result, declared, hvars, bvars>>

\* parse_validate_attribute, regex = "..." arm; rand is the rng draw
ParseRegex(nv, rand) ==
    /\ pc = "parse"
    /\ nv \in RegexMetas(ty)
    /\ TotalAttrs < MaxAttrs
    /\ LET id == RegexId(info.field, rand) IN
       IF ~ContainsKey(regex_tokens, id)
       THEN /\ regex_tokens' = Insert(regex_tokens, id, nv.lit)
            /\ info' = PushAttr(info, [kind |-> "Regex", id |-> id])
            /\ UNCHANGED <<pc, panic_msg>>
       ELSE /\ pc' = "panic"
            /\ panic_msg' = Panic("ValidateForm: regex already defined!")
            /\ UNCHANGED <<regex_tokens, info>>
    /\ UNCHANGED <<ty, fields, code, form, v, result, declared, hvars, bvars>>

\* parse_validate_attribute, compiled_regex = "id" arm
ParseCompiledRegex(nv) ==
    /\ pc = "parse"
    /\ nv \in CompiledRegexMetas(ty)
    /\ TotalAttrs < MaxAttrs
    /\ IF ContainsKey(regex_tokens, nv.lit)
       THEN /\ info' = PushAttr(info, [kind |-> "Regex", id |-> nv.lit])
            /\ UNCHANGED <<pc, panic_msg>>
       ELSE /\ pc' = "panic"
            /\ panic_msg' = Panic("compiled_regex requires a pre-compiled regex via a validate_regex struct attribute")
            /\ UNCHANGED info
    /\ UNCHANGED <<ty, fields, regex_tokens, declared, code, form, v, result, hvars, bvars>>

\* parse_validate_match_attribute: #[validate_match(other)]
ParseValidateMatchAttribute(w) ==
    /\ pc = "parse"
    /\ w \in {FieldNames[i] : i \in 1..NumFields} \ {info.field}
    /\ TotalAttrs < MaxAttrs
    /\ info' = PushAttr(info, [kind |-> "Match", other |-> w])
    /\ UNCHANGED <<pc, ty, fields, regex_tokens, panic_msg, code, form, v, result, declared, hvars, bvars>>

\* parse_field_attributes: the field's attributes are done, self.fields.push(info)
PushField ==
    /\ pc = "parse"
    /\ fields' = Append(fields, info)
    /\ IF Len(fields) + 1 < NumFields
       THEN /\ info' = NewValidateField(FieldNames[Len(fields) + 2])
            /\ UNCHANGED pc
       ELSE /\ info' = NoInfo
            /\ pc' = "parsed"
    /\ UNCHANGED <<ty, regex_tokens, panic_msg, code, form, v, result, declared, hvars, bvars>>

(* ---------------- derive(ValidateForm): code generation --------------- *)
\* WriteAttr with the length check off by one (<= for <, >= for >)
WriteAttrOffByOne(name, attr) ==
    CASE attr.kind = "StringMin" ->
            [lhs |-> "len", op |-> "<=", rhs |-> attr.n,
             push |-> [error |-> "InputTooShort", field |-> name, min |-> attr.n]]
      [] attr.kind = "StringMax" ->
            [lhs |-> "len", op |-> ">=", rhs |-> attr.n,
             push |-> [error |-> "InputTooLong", field |-> name, max |-> attr.n]]
      [] attr.kind = "ValueMin" ->
            [lhs |-> "value", op |-> "<", rhs |-> attr.n,
             push |-> [error |-> "TooSmall", field |-> name, min |-> attr.n]]
      [] attr.kind = "ValueMax" ->
            [lhs |-> "value", op |-> ">", rhs |-> attr.n,
             push |-> [error |-> "TooLarge", field |-> name, max |-> attr.n]]
      [] attr.kind = "Regex" ->
            [lhs |-> "regex", op |-> "!is_match", rhs |-> attr.id,
             push |-> [error |-> "InvalidRegex", field |-> name]]
      [] OTHER -> [lhs |-> "panic"]

\* the statement validators::write quotes for one attribute of field name;
\* the `_ => panic!("")` arm is the statement "panic"
WriteAttr(name, attr) ==
    CASE attr.kind = "StringMin" ->
            [lhs |-> "len", op |-> "<", rhs |-> attr.n,
             push |-> [error |-> "InputTooShort", field |-> name, min |-> attr.n]]
      [] attr.kind = "StringMax" ->
            [lhs |-> "len", op |-> ">", rhs |-> attr.n,
             push |-> [error |-> "InputTooLong", field |-> name, max |-> attr.n]]
      [] attr.kind = "ValueMin" ->
            [lhs |-> "value", op |-> "<", rhs |-> attr.n,
             push |-> [error |-> "TooSmall", field |-> name, min |-> attr.n]]
      [] attr.kind = "ValueMax" ->
            [lhs |-> "value", op |-> ">", rhs |-> attr.n,
             push |-> [error |-> "TooLarge", field |-> name, max |-> attr.n]]
      [] attr.kind = "Regex" ->
            [lhs |-> "regex", op |-> "!is_match", rhs |-> attr.id,
             push |-> [error |-> "InvalidRegex", field |-> name]]
      [] OTHER -> [lhs |-> "panic"]

IsPanic(stmt) == stmt.lhs = "panic"

\* validators::write: the statements of one field, wrapped in
\* match name { Some(s) => {stream}, None => {} } when the field is optional
Write(i) ==
    LET stream == [j \in 1..Len(i.attrs) |-> WriteAttr(i.field, i.attrs[j])] IN
    IF \E j \in 1..Len(i.attrs) : IsPanic(stream[j])
    THEN [panics |-> TRUE]
    ELSE [panics |-> FALSE, name |-> i.field, optional |-> i.optional, stream |-> stream]

NoCode == [statics |-> EmptyMap, blocks |-> <<>>]

\* ValidateStruct::to_tokens: a lazy_static per regex_tokens entry, then every field
ToTokens(fs, regexes) ==
    [statics |-> regexes, blocks |-> [k \in 1..Len(fs) |-> Write(fs[k])]]

\* impl_validate_macro, after parse: quote! the impl of ValidateForm
ImplValidateMacro ==
    /\ pc = "parsed"
    /\ LET gen == ToTokens(fields, regex_tokens) IN
       IF \E k \in 1..Len(gen.blocks) : gen.blocks[k].panics
       THEN /\ pc' = "panic"
            /\ panic_msg' = Panic("")
            /\ UNCHANGED code
       ELSE /\ pc' = "ready"
            /\ code' = gen
            /\ UNCHANGED panic_msg
    /\ UNCHANGED <<ty, fields, info, regex_tokens, form, v, result, declared, hvars, bvars>>

(* ---------------- the generated ValidateForm::validate ---------------- *)
\* Regex::is_match of the compiled pattern on the whole value
IsMatch(pattern, s) ==
    CASE pattern = UserPattern ->
            Len(s) >= 1 /\ \A k \in 1..Len(s) : s[k] = "a"
      [] pattern = EmailPattern ->
            \E at \in 2..Len(s), dot \in 3..Len(s) :
                /\ at + 1 < dot /\ dot < Len(s)
                /\ s[at] = "@" /\ s[dot] = "."
                /\ \A k \in 1..(at - 1) : s[k] \in {"a", "b", "."}
                /\ \A k \in (at + 1)..(dot - 1) : s[k] \in {"a", "b"}
                /\ \A k \in (dot + 1)..Len(s) : s[k] \in {"a", "b", "."}
      [] OTHER -> FALSE

Compare(a, op, b) ==
    CASE op = "<" -> a < b
      [] op = ">" -> a > b
      [] op = "<=" -> a <= b
      [] op = ">=" -> a >= b

\* the condition of one generated if-statement on self.<name>
Cond(stmt, x, statics) ==
    CASE stmt.lhs = "len" -> Compare(Len(x), stmt.op, stmt.rhs)
      [] stmt.lhs = "value" -> Compare(x, stmt.op, stmt.rhs)
      [] stmt.lhs = "regex" -> ~IsMatch(statics[stmt.rhs], x)

\* RunStream that returns at the first failing statement
RECURSIVE RunStreamShortCircuit(_, _, _, _)
RunStreamShortCircuit(stream, x, statics, errs) ==
    IF stream = <<>> THEN errs
    ELSE IF Cond(Head(stream), x, statics) THEN Append(errs, Head(stream).push)
    ELSE RunStreamShortCircuit(Tail(stream), x, statics, errs)

\* if cond { v.push(error) }, one statement after the other
RECURSIVE RunStream(_, _, _, _)
RunStream(stream, x, statics, errs) ==
    IF stream = <<>> THEN errs
    ELSE RunStream(Tail(stream), x, statics,
                   IF Cond(Head(stream), x, statics)
                   THEN Append(errs, Head(stream).push) ELSE errs)

\* RunField that reads a None as the type's default value
RunFieldUnwrapOrDefault(block, self, statics, errs) ==
    RunStream(block.stream,
              IF self[block.name].some THEN self[block.name].val
              ELSE IF ty = "str" THEN <<>> ELSE 0,
              statics, errs)

\* RunField that skips an optional field whether or not it holds a value
RunFieldSkipOptional(block, self, statics, errs) ==
    IF block.optional THEN errs
    ELSE RunStream(block.stream, self[block.name].val, statics, errs)

\* the tokens of one field: the stream, or the match around it
RunField(block, self, statics, errs) ==
    IF block.optional
    THEN IF self[block.name].some
         THEN RunStream(block.stream, self[block.name].val, statics, errs)
         ELSE errs
    ELSE RunStream(block.stream, self[block.name].val, statics, errs)

RECURSIVE RunFields(_, _, _, _)
RunFields(blocks, self, statics, errs) ==
    IF blocks = <<>> THEN errs
    ELSE RunFields(Tail(blocks), self, statics, RunField(Head(blocks), self, statics, errs))

\* ResultOf with the arms of the match swapped
ResultOfSwapped(errs) == IF Len(errs) = 0 THEN "Err" ELSE "Ok"

\* match v.len() { 0 => Ok(()), _ => Err(v) }
ResultOf(errs) == IF Len(errs) = 0 THEN "Ok" ELSE "Err"

NameSet == {FieldNames[k] : k \in 1..NumFields}

FieldOf(name) == CHOOSE k \in 1..NumFields : FieldNames[k] = name

\* the records of the struct: Option fields may hold None
Forms ==
    IF pc # "ready" THEN {}
    ELSE {f \in [NameSet -> {Some(x) : x \in Values(ty)} \cup {None}] :
            \A n \in NameSet : fields[FieldOf(n)].optional \/ f[n].some}

\* ValidateForm::validate(&self)
Validate(self) ==
    /\ pc = "ready"
    /\ self \in Forms
    /\ form' = self
    /\ v' = RunFields(code.blocks, self, code.statics, <<>>)
    /\ result' = ResultOf(v')
    /\ pc' = "done"
    /\ UNCHANGED <<ty, fields, info, regex_tokens, panic_msg, code, declared, hvars, bvars>>

NoForm == [n \in NameSet |-> None]

(* ---------------- derive(HtmlForm): the field validators -------------- *)
\* the #[html_validate(...)] name/value pairs a field of type t can carry
HtmlValidateMetas(t) ==
    IF t = "str"
    THEN {[ident |-> "minlength", lit |-> n] : n \in MinArgs} \cup
         {[ident |-> "maxlength", lit |-> n] : n \in MaxArgs} \cup
         {[ident |-> "pattern", lit |-> UserPattern]}
    ELSE {[ident |-> "min", lit |-> n] : n \in MinArgs} \cup
         {[ident |-> "max", lit |-> n] : n \in MaxArgs}

\* HtmlValidate::parse, one name/value pair of #[html_validate]: add_validator
HtmlValidateParse(nv) ==
    /\ pc = "html_parse"
    /\ nv \in HtmlValidateMetas(ty)
    /\ Len(hv.validators) < MaxAttrs
    /\ hv' = [hv EXCEPT !.validators = Append(@,
            [kind |-> CASE nv.ident = "min" -> "MinValue"
                        [] nv.ident = "max" -> "MaxValue"
                        [] nv.ident = "minlength" -> "MinLength"
                        [] nv.ident = "maxlength" -> "MaxLength"
                        [] nv.ident = "pattern" -> "Pattern",
             lit |-> nv.lit])]
    /\ UNCHANGED <<pc, ty, checks, hvalue, hret, herrors, vvars, bvars>>

\* the #[html_error(...)] name/value pairs a field of type t can carry; a literal
\* that is not a string has str = FALSE
HtmlErrorMetas(t) ==
    IF t = "str"
    THEN {[ident |-> "minlength", str |-> TRUE, lit |-> <<"too short">>],
          [ident |-> "maxlength", str |-> TRUE, lit |-> <<"too long">>],
          [ident |-> "pattern", str |-> TRUE, lit |-> <<"bad format">>],
          [ident |-> "maxlength", str |-> FALSE, lit |-> <<"3">>]}
    ELSE {[ident |-> "min", str |-> TRUE, lit |-> <<"too small">>],
          [ident |-> "max", str |-> TRUE, lit |-> <<"too big">>],
          [ident |-> "max", str |-> FALSE, lit |-> <<"3">>]}

\* HtmlValidate::parse, one name/value pair of #[html_error]: add_error_msg for a
\* string literal, nothing for any other literal
HtmlErrorParse(nv) ==
    /\ pc = "html_parse"
    /\ nv \in HtmlErrorMetas(ty)
    /\ hv' = IF nv.str THEN [hv EXCEPT !.errors = Insert(@, nv.ident, nv.lit)] ELSE hv
    /\ UNCHANGED <<pc, ty, checks, hvalue, hret, herrors, vvars, bvars>>

\* Validator::get_name
GetName(val) ==
    CASE val.kind = "MinValue" -> "min"
      [] val.kind = "MaxValue" -> "max"
      [] val.kind = "MinLength" -> "minlength"
      [] val.kind = "MaxLength" -> "maxlength"
      [] val.kind = "Pattern" -> "pattern"

\* Validator::default_error
DefaultError(val) ==
    CASE val.kind = "MinValue" -> <<"Minimum value is ", val.lit>>
      [] val.kind = "MaxValue" -> <<"Maximum value is ", val.lit>>
      [] val.kind = "MinLength" -> <<"Must be at least ", val.lit, " characters long">>
      [] val.kind = "MaxLength" -> <<"Maximum length is ", val.lit>>
      [] val.kind = "Pattern" -> <<"Did not match pattern: ", val.lit>>

\* GetError that takes any override of the map, whatever its key
GetErrorAnyKey(val, map) ==
    IF DOMAIN map # {} THEN map[CHOOSE k \in DOMAIN map : TRUE] ELSE DefaultError(val)

\* Validator::get_error
GetError(val, map) ==
    IF ContainsKey(map, GetName(val)) THEN map[GetName(val)] ELSE DefaultError(val)

\* ValidatorCond with the comparisons strict (> for >=, < for <=)
ValidatorCondStrict(val) ==
    CASE val.kind = "MinValue" -> [lhs |-> "value", op |-> ">", rhs |-> val.lit]
      [] val.kind = "MaxValue" -> [lhs |-> "value", op |-> "<", rhs |-> val.lit]
      [] val.kind = "MinLength" -> [lhs |-> "len", op |-> ">", rhs |-> val.lit]
      [] val.kind = "MaxLength" -> [lhs |-> "len", op |-> "<", rhs |-> val.lit]
      [] val.kind = "Pattern" -> [lhs |-> "true"]

\* Validator::write, `let cond = match self`: the condition that accepts a value
ValidatorCond(val) ==
    CASE val.kind = "MinValue" -> [lhs |-> "value", op |-> ">=", rhs |-> val.lit]
      [] val.kind = "MaxValue" -> [lhs |-> "value", op |-> "<=", rhs |-> val.lit]
      [] val.kind = "MinLength" -> [lhs |-> "len", op |-> ">=", rhs |-> val.lit]
      [] val.kind = "MaxLength" -> [lhs |-> "len", op |-> "<=", rhs |-> val.lit]
      [] val.kind = "Pattern" -> [lhs |-> "true"]

\* Validator::write: the closure body of one validator
ValidatorWrite(val, optional, map) ==
    [cond |-> ValidatorCond(val), err_msg |-> GetError(val, map), optional |-> optional]

\* HtmlValidate::to_tokens: FieldValidator::new(name, vec![closures])
HtmlToTokens ==
    /\ pc = "html_parse"
    /\ checks' = [j \in 1..Len(hv.validators) |->
                    ValidatorWrite(hv.validators[j], hv.optional, hv.errors)]
    /\ pc' = "html_ready"
    /\ UNCHANGED <<ty, hv, hvalue, hret, herrors, vvars, bvars>>

\* the generated condition on the closure's argument
CheckCond(cond, x) ==
    CASE cond.lhs = "value" -> Compare(x, cond.op, cond.rhs)
      [] cond.lhs = "len" -> Compare(Len(x), cond.op, cond.rhs)
      [] cond.lhs = "true" -> TRUE

\* one closure applied to the value: TRUE is Ok(()), FALSE is Err(err_msg)
CheckFn(check, x) ==
    IF check.optional
    THEN IF x.some THEN CheckCond(check.cond, x.val) ELSE TRUE
    ELSE CheckCond(check.cond, x.val)

\* the closures Iterator::all has called when it stops: up to the first Err
FirstErr(fns, x) ==
    IF \E j \in 1..Len(fns) : ~CheckFn(fns[j], x)
    THEN CHOOSE j \in 1..Len(fns) :
            ~CheckFn(fns[j], x) /\ \A i \in 1..(j - 1) : CheckFn(fns[i], x)
    ELSE 0

\* OrInsert that overwrites an entry that is present
OrInsertOverwrite(map, k, x) == Insert(map, k, x)

\* HashMap::entry(k).or_insert(x)
OrInsert(map, k, x) == IF ContainsKey(map, k) THEN map ELSE Insert(map, k, x)

HtmlValues ==
    {Some(x) : x \in Values(ty)} \cup (IF hv.optional THEN {None} ELSE {})

\* the errors map the caller hands to validate: empty, or holding the message of
\* another field's validator
CallerErrors == {EmptyMap, Insert(EmptyMap, FieldNames[2], <<"other message">>)}

\* FieldValidator::validate(&self, value, errors)
FieldValidatorValidate(value) ==
    /\ pc \in {"html_ready", "html_done"}
    /\ value \in HtmlValues
    /\ hvalue' = value
    /\ LET j == FirstErr(checks, value) IN
       /\ hret' = (j = 0)
       /\ herrors' = IF j = 0 THEN herrors
                     ELSE OrInsert(herrors, hv.name, checks[j].err_msg)
    /\ pc' = "html_done"
    /\ last_op' = [call |-> "validate", errors |-> herrors]
    /\ UNCHANGED <<ty, hv, checks, vvars>>
    /\ UNCHANGED <<builder, html_field, origin, hform, rejected, out>>

(* ---------------- HtmlAttribute and HtmlFieldBuilder ------------------ *)
\* strings of the builder are sequences of words; format!("{} {}", a, b) joins two
Join(a, b) == a \o <<" ">> \o b

\* HtmlAttribute::new_single
Single(value) == [kind |-> "Single", value |-> value]

\* HtmlAttribute::new_pair
Pair(name, value) == [kind |-> "Pair", key |-> name, value |-> value]

\* Eq that compares the value of a Pair too
EqWithValue(a, b) ==
    /\ a.kind = b.kind
    /\ IF a.kind = "Single" THEN a.value = b.value
       ELSE a.key = b.key /\ a.value = b.value

\* impl Hash for HtmlAttribute: the string fed to the hasher
HashOf(a) == IF a.kind = "Single" THEN a.value ELSE <<a.key>>

\* Eq that compares the hashed strings only, whatever the kinds
EqByHash(a, b) == HashOf(a) = HashOf(b)

\* impl PartialEq for HtmlAttribute (and the Hash that agrees with it)
Eq(a, b) ==
    /\ a.kind = b.kind
    /\ IF a.kind = "Single" THEN a.value = b.value ELSE a.key = b.key

\* HtmlAttribute::merge
Merge(a, b) ==
    IF a.kind = "Single"
    THEN IF b.kind = "Single" THEN a
         ELSE [kind |-> "panic", msg |-> "HtmlAttribute: merge failed: single -> pair"]
    ELSE IF b.kind = "Pair" THEN Pair(a.key, Join(a.value, b.value))
         ELSE [kind |-> "panic", msg |-> "HtmlAttribute: merge failed: pair -> single"]

Contains(set, a) == \E e \in set : Eq(e, a)

\* HashSet::get
Get(set, a) == IF Contains(set, a) THEN Some(CHOOSE e \in set : Eq(e, a)) ELSE None

\* HashSetInsert that adds the element whether or not an equal one is there
HashSetInsertAlways(set, a) == set \cup {a}

\* HashSet::insert: an equal element already in the set is kept as it is
HashSetInsert(set, a) == IF Contains(set, a) THEN set ELSE set \cup {a}

\* HashSetReplace that joins the value of an equal Pair with the new one
HashSetReplaceJoin(set, a) ==
    {e \in set : ~Eq(e, a)} \cup
    {IF a.kind = "Pair" /\ Contains(set, a)
     THEN Pair(a.key, Join((CHOOSE e \in set : Eq(e, a)).value, a.value)) ELSE a}

\* HashSet::replace: an equal element is removed and a takes its place
HashSetReplace(set, a) == {e \in set : ~Eq(e, a)} \cup {a}

\* the panic that merge raised while the builder was being changed, if any
Panicked(b) == {e \in b.attrs : e.kind = "panic"}

\* add_to_attributes that merges in replace mode too
AddToAttributesAlwaysMerge(b, attr) ==
    [b EXCEPT !.attrs =
        HashSetReplace(@, IF Contains(b.attrs, attr)
                          THEN Merge(Get(b.attrs, attr).val, attr) ELSE attr)]

\* HtmlFieldBuilder::add_to_attributes; a panic of merge unwinds before the insert
\* and through the rest of the calling method
AddToAttributes(b, attr) ==
    IF Panicked(b) # {} THEN b
    ELSE IF b.replace
    THEN [b EXCEPT !.attrs = HashSetReplace(@, attr)]
    ELSE LET merged == IF Contains(b.attrs, attr)
                       THEN Merge(Get(b.attrs, attr).val, attr) ELSE attr
         IN  IF merged.kind = "panic"
             THEN [b EXCEPT !.attrs = @ \cup {merged}]
             ELSE [b EXCEPT !.attrs = HashSetInsert(@, merged)]

RECURSIVE AddAll(_, _)
AddAll(b, list) ==
    IF list = <<>> THEN b ELSE AddAll(AddToAttributes(b, Head(list)), Tail(list))

\* AddSet that skips the attributes the builder holds an equal of
AddSetOnlyNew(b, h) == [b EXCEPT !.attrs = @ \cup {a \in h : ~Contains(b.attrs, a)}]

\* a HashSet visited in some order: for attr in h
RECURSIVE AddSet(_, _)
AddSet(b, h) ==
    IF h = {} THEN b
    ELSE LET a == CHOOSE e \in h : TRUE IN AddSet(AddToAttributes(b, a), h \ {a})

\* builder inputs
Tags == {"input", "form"}

Names == {<<"user">>}

Keys == {"name", "class"}

Words == {<<"x">>, <<"y">>}

SingleValues == {<<"required">>, <<"class">>}

ValueLists == {<<>>} \cup {<<a>> : a \in SingleValues} \cup
              {<<a, c>> : a \in SingleValues, c \in SingleValues}

\* the attribute sets a caller can hand over: no two members equal by Eq
AttrSets ==
    {h \in SUBSET {Pair("name", <<"x">>), Pair("class", <<"x">>), Pair("class", <<"y">>),
                   Single(<<"required">>)} :
        \A a \in h : \A e \in h : Eq(a, e) => a = e}

\* no value of the set is longer than the bound
Fits(b) == \A e \in b.attrs : e.kind = "panic" \/ Len(e.value) <= MaxValueLen

NoField == [tag |-> "-", name |-> None, attrs |-> {}]

NoOp == [call |-> "new"]

\* what identifies a Pair in the set: its key
Id(a) == a.key

\* the keys of the Pair entries (a Single has no value that an insert could combine)
Ids(set) == {Id(e) : e \in {x \in set : x.kind = "Pair"}}

NoOrigin == [i \in {} |-> FALSE]

\* the entries a constructor leaves were written in append mode (replace: false)
OriginOf(b) == [i \in Ids(b.attrs) |-> FALSE]

\* after inserting ins into the set of builder: an entry was written by this call
\* if the mode is replace or no equal entry was there
OriginAfter(b, ins) ==
    [i \in Ids(b.attrs) |->
        IF i \in Ids(ins) /\ (builder.replace \/ i \notin DOMAIN origin)
        THEN builder.replace ELSE origin[i]]

\* the call, the mode it ran in and the equal attribute it found in the set
OpOf(call, attr) ==
    [call |-> call, attr |-> attr, replace |-> builder.replace,
     old |-> Get(builder.attrs, attr), before |-> builder.attrs,
     old_mode |-> IF attr.kind = "Pair" /\ Id(attr) \in DOMAIN origin
                  THEN origin[Id(attr)] ELSE FALSE]

\* HtmlFieldBuilder::new
New(tag, name) ==
    LET b == [tag |-> tag, name |-> name, attrs |-> {}, replace |-> FALSE] IN
    IF name.some THEN [b EXCEPT !.attrs = HashSetReplace(@, Pair("name", name.val))]
    ELSE b

\* WithAttrs that keeps a `name` pair of the supplied set
WithAttrsKeepName(tag, name, attrs) ==
    LET b == [tag |-> tag, name |-> name, attrs |-> attrs, replace |-> FALSE] IN
    IF name.some THEN [b EXCEPT !.attrs = HashSetInsert(@, Pair("name", name.val))]
    ELSE b

\* HtmlFieldBuilder::with_attrs
WithAttrs(tag, name, attrs) ==
    LET b == [tag |-> tag, name |-> name, attrs |-> attrs, replace |-> FALSE] IN
    IF name.some THEN [b EXCEPT !.attrs = HashSetReplace(@, Pair("name", name.val))]
    ELSE b

\* one builder method, self -> Self: ins are the attributes it hands to
\* add_to_attributes; a panic in merge unwinds and leaves no builder
Step(b, o, ins) ==
    /\ pc = "builder"
    /\ Fits(b)
    /\ IF Panicked(b) # {}
       THEN /\ pc' = "panic"
            /\ panic_msg' = Panic((CHOOSE e \in Panicked(b) : TRUE).msg)
            /\ UNCHANGED <<builder, origin>>
       ELSE /\ builder' = b
            /\ origin' = OriginAfter(b, ins)
            /\ UNCHANGED <<pc, panic_msg>>
    /\ last_op' = o
    /\ UNCHANGED <<ty, html_field, hform, rejected, out, hvars>>
    /\ UNCHANGED <<fields, info, regex_tokens, declared, code, form, v, result>>

\* HtmlFieldBuilder::value
Value(value) ==
    Step(AddToAttributes(builder, Single(value)), OpOf("value", Single(value)),
         {Single(value)})

\* HtmlFieldBuilder::values
ValuesOp(list) ==
    Step(AddAll(builder, [j \in 1..Len(list) |-> Single(list[j])]),
         [call |-> "values", list |-> list, replace |-> builder.replace,
          before |-> builder.attrs],
         {Single(list[j]) : j \in 1..Len(list)})

\* HtmlFieldBuilder::attr
Attr(attr, value) ==
    Step(AddToAttributes(builder, Pair(attr, value)), OpOf("attr", Pair(attr, value)),
         {Pair(attr, value)})

\* HtmlFieldBuilder::attrs
Attrs(h) ==
    Step(AddSet(builder, h),
         [call |-> "attrs", set |-> h, replace |-> builder.replace,
          before |-> builder.attrs],
         h)

\* HtmlFieldBuilder::class
Class(classes) ==
    Step(AddToAttributes(builder, Pair("class", classes)),
         OpOf("class", Pair("class", classes)), {Pair("class", classes)})

\* HtmlFieldBuilder::required
Required ==
    Step(AddToAttributes(builder, Single(<<"required">>)),
         OpOf("required", Single(<<"required">>)), {Single(<<"required">>)})

\* HtmlFieldBuilder::optional
Optional ==
    Step(AddToAttributes(builder, Single(<<"required">>)),
         OpOf("optional", Single(<<"required">>)), {Single(<<"required">>)})

\* Replace that also empties the attribute set
ReplaceAndClear ==
    Step([builder EXCEPT !.replace = TRUE, !.attrs = {}],
         [call |-> "replace", before |-> builder], {})

\* HtmlFieldBuilder::replace
Replace ==
    Step([builder EXCEPT !.replace = TRUE], [call |-> "replace", before |-> builder], {})

\* HtmlFieldBuilder::append
AppendMode ==
    Step([builder EXCEPT !.replace = FALSE], [call |-> "append", before |-> builder], {})

\* finish(self) consumes the builder: none is left to call
Moved == [tag |-> "-", name |-> None, attrs |-> {}, replace |-> FALSE]

\* the HtmlField that finish() makes of builder b
FinishOf(b) == [tag |-> b.tag, name |-> None, attrs |-> b.attrs]

\* HtmlFieldBuilder::finish
Finish ==
    /\ pc = "builder"
    /\ html_field' = FinishOf(builder)
    /\ pc' = "finished"
    /\ builder' = Moved
    /\ origin' = NoOrigin
    /\ last_op' = [call |-> "finish", before |-> builder]
    /\ UNCHANGED <<ty, hform, rejected, out, vvars, hvars>>

(* ------------------- Display and HtmlFormBuilder ---------------------- *)
NoOut == <<>>

\* DisplayAttr that leaves out the quotes around the value of a Pair
DisplayAttrUnquoted(a) ==
    IF a.kind = "Single" THEN a.value ELSE <<a.key, "=">> \o a.value

\* HtmlAttribute::render: " value", or " key='value'"
RenderAttr(a) ==
    IF a.kind = "Single" THEN <<" ">> \o a.value
    ELSE <<" ", a.key, "='">> \o a.value \o <<"'">>

\* impl Display for HtmlAttribute: value, or key='value'
DisplayAttr(a) ==
    IF a.kind = "Single" THEN a.value ELSE <<a.key, "='">> \o a.value \o <<"'">>

\* the orders in which a HashSet or HashMap can hand out its elements
Orders(set) ==
    {f \in [1..Cardinality(set) -> set] :
        \A i \in DOMAIN f : \A j \in DOMAIN f : i # j => f[i] # f[j]}

RECURSIVE WriteAttrs(_)
\* for attr in &self.attrs { write!(f, " {}", attr) }
WriteAttrs(order) ==
    IF order = <<>> THEN <<>>
    ELSE <<" ">> \o DisplayAttr(Head(order)) \o WriteAttrs(Tail(order))

\* impl Display for HtmlField: the literal "<input" (written here as "<" and the
\* tag name it spells), the attributes, ">"
FieldFmt(field, order) == <<"<", "input">> \o WriteAttrs(order) \o <<">">>

\* println!("{}", field) on the field that finish() returned
FieldDisplay ==
    /\ pc = "finished"
    /\ \E order \in Orders(html_field.attrs) : out' = FieldFmt(html_field, order)
    /\ pc' = "rendered"
    /\ last_op' = [call |-> "display"]
    /\ UNCHANGED <<ty, builder, html_field, origin, hform, rejected, vvars, hvars>>

\* the fields the form stores, by name
FormNames == {"user", "pass"}

\* the order in which the struct declares its fields, which is the order in which
\* the generated form() inserts them
DeclaredOrder == <<"user", "pass">>

\* HtmlFormBuilder::new
NewHtmlForm == [fields |-> [n \in {} |-> NoField], validated |-> FALSE]

\* the builders the generated form() stores: HtmlFieldBuilder::with_attrs(tag, name, attrs)
SchemaBuilders ==
    {WithAttrs("input", Some(<<"user">>), {}),
     WithAttrs("input", Some(<<"user">>), {Pair("class", <<"x">>), Single(<<"required">>)}),
     WithAttrs("form", None, {Pair("class", <<"y">>)})}

RECURSIVE WriteFields(_, _, _)
\* for (_, field) in &self.fields { write!(f, "{}\n", field.clone().finish()) }
WriteFields(fs, forder, aorder) ==
    IF forder = <<>> THEN <<>>
    ELSE FieldFmt(FinishOf(fs[Head(forder)]), aorder[Head(forder)]) \o <<"\n">>
            \o WriteFields(fs, Tail(forder), aorder)

\* impl Display for HtmlFormBuilder; a field finished before goes out of scope
FormDisplay ==
    /\ pc \in {"form", "finished", "rendered"}
    /\ DOMAIN hform.fields # {}
    /\ \E forder \in Orders(DOMAIN hform.fields) :
       \E aorder \in [DOMAIN hform.fields ->
                        UNION {Orders(hform.fields[n].attrs) : n \in DOMAIN hform.fields}] :
          /\ \A n \in DOMAIN hform.fields : aorder[n] \in Orders(hform.fields[n].attrs)
          /\ out' = WriteFields(hform.fields, forder, aorder)
          /\ last_op' = [call |-> "display_form", after |-> pc,
                         forder |-> forder, aorder |-> aorder]
    /\ pc' = "form"
    /\ html_field' = NoField
    /\ UNCHANGED <<ty, builder, origin, hform, rejected, vvars, hvars>>

\* FormBuilder that takes the stored builder out of the form instead of cloning it
FormBuilderTake(field) ==
    /\ pc \in {"form", "finished", "rendered"}
    /\ DOMAIN hform.fields # {}
    /\ IF field \in DOMAIN hform.fields
       THEN /\ builder' = hform.fields[field]
            /\ origin' = OriginOf(hform.fields[field])
            /\ pc' = "builder"
            /\ UNCHANGED panic_msg
       ELSE /\ pc' = "panic"
            /\ panic_msg' = Panic("WebForms - No field with name")
            /\ UNCHANGED <<builder, origin>>
    /\ html_field' = NoField
    /\ out' = NoOut
    /\ last_op' = [call |-> "builder", field |-> field, prev |-> html_field]
    /\ hform' = [hform EXCEPT !.fields = [n \in DOMAIN @ \ {field} |-> @[n]]]
    /\ UNCHANGED <<ty, rejected, hvars>>
    /\ UNCHANGED <<fields, info, regex_tokens, declared, code, form, v, result>>

\* HtmlFormBuilder::builder(field): a clone of the stored builder, or a panic
FormBuilder(field) ==
    /\ pc \in {"form", "finished", "rendered"}
    /\ DOMAIN hform.fields # {}
    /\ IF field \in DOMAIN hform.fields
       THEN /\ builder' = hform.fields[field]
            /\ origin' = OriginOf(hform.fields[field])
            /\ pc' = "builder"
            /\ UNCHANGED panic_msg
       ELSE /\ pc' = "panic"
            /\ panic_msg' = Panic("WebForms - No field with name")
            /\ UNCHANGED <<builder, origin>>
    /\ html_field' = NoField
    /\ out' = NoOut
    /\ last_op' = [call |-> "builder", field |-> field, prev |-> html_field]
    /\ UNCHANGED <<ty, hform, rejected, hvars>>
    /\ UNCHANGED <<fields, info, regex_tokens, declared, code, form, v, result>>

\* the values handed to validate_field
FormValues == {1, 2}

\* the closures handed to validate_field, each one as the set of values it accepts
Closures == SUBSET FormValues

\* the vectors of closures handed to validate_field
ClosureVecs == {<<>>} \cup {<<c>> : c \in Closures} \cup {<<c, d>> : c, d \in Closures}

\* validators.iter().all(|x| x(value))
AllAccept(value, validators) == \A i \in DOMAIN validators : value \in validators[i]

\* HtmlFormBuilder::validate_field: self.validated = validators.iter().all(|x| x(value))
ValidateField(value, validators) ==
    /\ pc = "new_form"
    /\ hform' = [hform EXCEPT !.validated = AllAccept(value, validators)]
    /\ rejected' = (rejected \/ ~AllAccept(value, validators))
    /\ last_op' = [call |-> "validate_field", value |-> value, validators |-> validators]
    /\ UNCHANGED <<pc, ty, builder, html_field, origin, out, vvars, hvars>>

\* HtmlFormBuilder::add_field: self.fields.insert(name, field)
AddField(name, field) ==
    /\ pc = "new_form"
    /\ hform' = [hform EXCEPT !.fields =
                    [n \in DOMAIN @ \cup {name} |-> IF n = name THEN field ELSE @[n]]]
    /\ last_op' = [call |-> "add_field", name |-> name, field |-> field]
    /\ UNCHANGED <<pc, ty, builder, html_field, origin, rejected, out, vvars, hvars>>

(* --------------------------- specifications --------------------------- *)
vars == <<pc, ty, vvars, hvars, bvars>>

NoHtml ==
    /\ hv = [name |-> "-", errors |-> EmptyMap, validators |-> <<>>, optional |-> FALSE]
    /\ checks = <<>>
    /\ hvalue = None
    /\ hret = FALSE
    /\ herrors = EmptyMap

NoBuilder ==
    /\ builder = [tag |-> "-", name |-> None, attrs |-> {}, replace |-> FALSE]
    /\ html_field = NoField
    /\ last_op = NoOp
    /\ origin = NoOrigin
    /\ hform = NewHtmlForm
    /\ rejected = FALSE
    /\ out = NoOut

NoValidate ==
    /\ fields = <<>>
    /\ info = NoInfo
    /\ regex_tokens = EmptyMap
    /\ declared = {}
    /\ panic_msg = NoPanic
    /\ code = NoCode
    /\ form = NoForm
    /\ v = <<>>
    /\ result = "none"

\* ValidateStruct::new
InitValidateForm ==
    /\ pc = "struct"
    /\ ty \in {"str", "int"}
    /\ fields = <<>>
    /\ info = NoInfo
    /\ regex_tokens = EmptyMap
    /\ declared = {}
    /\ panic_msg = NoPanic
    /\ code = NoCode
    /\ form = NoForm
    /\ v = <<>>
    /\ result = "none"
    /\ NoHtml
    /\ NoBuilder

\* HtmlValidate::parse, before the attribute loop; optional = is_option(&field.ty)
InitHtmlValidate ==
    /\ pc = "html_parse"
    /\ ty \in {"str", "int"}
    /\ \E opt \in BOOLEAN :
          hv = [name |-> FieldNames[1], errors |-> EmptyMap, validators |-> <<>>,
                optional |-> opt]
    /\ checks = <<>>
    /\ hvalue = None
    /\ hret = FALSE
    /\ herrors \in CallerErrors
    /\ NoValidate
    /\ NoBuilder

InitValidate == InitValidateForm \/ InitHtmlValidate

NextValidate ==
    \/ \E nv \in ValidateRegexMetas : ParseValidateRegexAttr(nv)
    \/ ParseFieldAttributes
    \/ \E w \in {"email", "phone", "optional"} : ParseWord(w)
    \/ \E nv \in NameValueMetas(ty) : ParseNameValue(nv)
    \/ \E nv \in RegexMetas(ty), rand \in RandIds : ParseRegex(nv, rand)
    \/ \E nv \in CompiledRegexMetas(ty) : ParseCompiledRegex(nv)
    \/ \E w \in NameSet : ParseValidateMatchAttribute(w)
    \/ PushField
    \/ ImplValidateMacro
    \/ \E self \in Forms : Validate(self)
    \/ \E nv \in HtmlValidateMetas(ty) : HtmlValidateParse(nv)
    \/ \E nv \in HtmlErrorMetas(ty) : HtmlErrorParse(nv)
    \/ HtmlToTokens
    \/ \E value \in HtmlValues : FieldValidatorValidate(value)

SpecValidate == InitValidate /\ [][NextValidate]_vars

\* a builder made by new or by with_attrs
InitBuilder ==
    /\ pc = "builder"
    /\ ty = "str"
    /\ \E tag \in Tags, name \in {None} \cup {Some(n) : n \in Names} :
          \/ /\ builder = New(tag, name)
             /\ last_op = [call |-> "new", tag |-> tag, name |-> name]
          \/ \E h \in AttrSets :
                /\ builder = WithAttrs(tag, name, h)
                /\ last_op = [call |-> "with_attrs", tag |-> tag, name |-> name, set |-> h]
    /\ origin = OriginOf(builder)
    /\ html_field = NoField
    /\ hform = NewHtmlForm
    /\ rejected = FALSE
    /\ out = NoOut
    /\ NoValidate
    /\ NoHtml

\* the HtmlFormBuilder the generated form() returns: one stored builder per field
InitHtmlForm ==
    /\ pc = "form"
    /\ ty = "str"
    /\ \E names \in SUBSET FormNames :
          /\ names # {}
          /\ \E fs \in [names -> SchemaBuilders] :
                hform = [fields |-> fs, validated |-> FALSE]
    /\ builder = Moved
    /\ origin = NoOrigin
    /\ html_field = NoField
    /\ last_op = [call |-> "form"]
    /\ rejected = FALSE
    /\ out = NoOut
    /\ NoValidate
    /\ NoHtml

InitHtml == InitBuilder \/ InitHtmlForm

NextBuilder ==
    \/ \E value \in SingleValues : Value(value)
    \/ \E list \in ValueLists : ValuesOp(list)
    \/ \E attr \in Keys, value \in Words : Attr(attr, value)
    \/ \E h \in AttrSets : Attrs(h)
    \/ \E classes \in Words : Class(classes)
    \/ Required
    \/ Optional
    \/ Replace
    \/ AppendMode
    \/ Finish
    \/ FieldDisplay
    \/ FormDisplay
    \/ \E field \in FormNames : FormBuilder(field)

SpecBuilder == InitHtml /\ [][NextBuilder]_vars

\* HtmlFormBuilder::new()
InitForm ==
    /\ pc = "new_form"
    /\ ty = "str"
    /\ NoBuilder
    /\ NoValidate
    /\ NoHtml

NextForm ==
    \/ \E name \in FormNames, field \in SchemaBuilders : AddField(name, field)
    \/ \E value \in FormValues, validators \in ClosureVecs : ValidateField(value, validators)

SpecForm == InitForm /\ [][NextForm]_vars

(* ------------------------- the rules, as specified --------------------- *)
\* whether value x of field name breaks the rule
Breaks(rule, name, self) ==
    LET x == self[name].val IN
    CASE rule.kind = "StringMin" -> Len(x) < rule.n
      [] rule.kind = "StringMax" -> Len(x) > rule.n
      [] rule.kind = "ValueMin" -> x < rule.n
      [] rule.kind = "ValueMax" -> x > rule.n
      [] rule.kind = "Regex" -> ~IsMatch(regex_tokens[rule.id], x)
      [] rule.kind = "Email" -> ~IsMatch(EmailPattern, x)
      [] rule.kind = "Phone" -> ~IsMatch(PhonePattern, x)
      [] rule.kind = "Match" -> self[rule.other] # self[name]

\* the typed error of the rule
ErrorOf(rule, name) ==
    CASE rule.kind = "StringMin" -> [error |-> "InputTooShort", field |-> name, min |-> rule.n]
      [] rule.kind = "StringMax" -> [error |-> "InputTooLong", field |-> name, max |-> rule.n]
      [] rule.kind = "ValueMin" -> [error |-> "TooSmall", field |-> name, min |-> rule.n]
      [] rule.kind = "ValueMax" -> [error |-> "TooLarge", field |-> name, max |-> rule.n]
      [] rule.kind = "Regex" -> [error |-> "InvalidRegex", field |-> name]
      [] rule.kind = "Email" -> [error |-> "InvalidEmail", field |-> name]
      [] rule.kind = "Phone" -> [error |-> "InvalidPhoneNumber", field |-> name]
      [] rule.kind = "Match" -> [error |-> "FieldMismatch", field |-> name]

RECURSIVE ErrorsOfRules(_, _, _)
ErrorsOfRules(rules, name, self) ==
    IF rules = <<>> THEN <<>>
    ELSE (IF Breaks(Head(rules), name, self) THEN <<ErrorOf(Head(rules), name)>> ELSE <<>>)
         \o ErrorsOfRules(Tail(rules), name, self)

Absent(f, self) == f.optional /\ ~self[f.field].some

RECURSIVE ErrorsOfFields(_, _)
ErrorsOfFields(fs, self) ==
    IF fs = <<>> THEN <<>>
    ELSE (IF Absent(Head(fs), self) THEN <<>>
          ELSE ErrorsOfRules(Head(fs).attrs, Head(fs).field, self))
         \o ErrorsOfFields(Tail(fs), self)

\* the errors of v that name the field, in order
RECURSIVE ErrorsFor(_, _)
ErrorsFor(errs, name) ==
    IF errs = <<>> THEN <<>>
    ELSE (IF Head(errs).field = name THEN <<Head(errs)>> ELSE <<>>)
         \o ErrorsFor(Tail(errs), name)

Count(s, e) == Cardinality({j \in 1..Len(s) : s[j] = e})

HasRule(f, rule) == \E j \in 1..Len(f.attrs) : f.attrs[j] = rule

HasKind(kind) ==
    \E k \in 1..Len(fields) : \E j \in 1..Len(fields[k].attrs) : fields[k].attrs[j].kind = kind

(* ------------------------------ claims -------------------------------- *)
\* C1: validate evaluates every rule of every field without short-circuiting: v
\* holds exactly one error per violated rule and none for a satisfied rule, in
\* rule-declaration order, fields in declaration order.
C1_Accumulates ==
    pc = "done" => v = ErrorsOfFields(fields, form)

\* a value that breaks two distinct rules of one field has yielded two errors
C1_Witness ==
    /\ pc = "done"
    /\ Len(v) = 2
    /\ v[1].field = v[2].field
    /\ v[1].error # v[2].error

\* C2: an optional field whose value is None contributes no error, whatever its rules.
C2_OptionalNone ==
    /\ pc = "done" =>
            \A k \in 1..Len(fields) :
                Absent(fields[k], form) => ErrorsFor(v, fields[k].field) = <<>>
    /\ (pc = "html_done" /\ hv.optional /\ ~hvalue.some) =>
            hret /\ herrors = last_op.errors

C2_Witness ==
    /\ pc = "done"
    /\ \E k \in 1..Len(fields) : Absent(fields[k], form) /\ Len(fields[k].attrs) = MaxAttrs

C4_LengthBounds ==
    pc = "done" =>
        \A k \in 1..Len(fields) :
            LET f == fields[k]
                x == form[f.field]
            IN  (ty = "str" /\ x.some) =>
                  /\ \A n \in MinArgs :
                        HasRule(f, [kind |-> "StringMin", n |-> n]) =>
                            Count(v, [error |-> "InputTooShort", field |-> f.field, min |-> n])
                                = IF Len(x.val) < n
                                  THEN Count(f.attrs, [kind |-> "StringMin", n |-> n])
                                  ELSE 0
                  /\ \A m \in MaxArgs :
                        HasRule(f, [kind |-> "StringMax", n |-> m]) =>
                            Count(v, [error |-> "InputTooLong", field |-> f.field, max |-> m])
                                = IF Len(x.val) > m
                                  THEN Count(f.attrs, [kind |-> "StringMax", n |-> m])
                                  ELSE 0

\* a field with min_length 2 and max_length 3 holding a 1-character value: one error
C4_Witness ==
    /\ pc = "done"
    /\ fields[1].attrs = <<[kind |-> "StringMin", n |-> 2], [kind |-> "StringMax", n |-> 3]>>
    /\ Len(form[fields[1].field].val) = 1
    /\ v = <<[error |-> "InputTooShort", field |-> fields[1].field, min |-> 2]>>

\* C6: validate returns Ok(()) iff no rule of any field is violated, and Err with a
\* non-empty list otherwise.
C6_OkIffNoViolation ==
    pc = "done" =>
        /\ result \in {"Ok", "Err"}
        /\ result = "Ok" <=> ErrorsOfFields(fields, form) = <<>>
        /\ result = "Err" => Len(v) > 0

C6_Witness ==
    /\ pc = "done"
    /\ result = "Err"
    /\ Len(v) > 0

\* the derive has ended, by generating validate() and running it or in write's panic
Ended == pc = "done" \/ (pc = "panic" /\ panic_msg = Panic(""))

\* C7: a field carrying FieldMatch(other) yields exactly one FieldMismatch naming it
\* iff its value differs from the value of `other`, and none when they are equal.
C7_FieldMatch ==
    (Ended /\ HasKind("Match") /\ ~HasKind("Email") /\ ~HasKind("Phone")) =>
        /\ pc = "done"
        /\ \A k \in 1..Len(fields) :
              LET f == fields[k] IN
              \A o \in NameSet :
                  HasRule(f, [kind |-> "Match", other |-> o]) =>
                      Count(v, [error |-> "FieldMismatch", field |-> f.field])
                          = IF form[o] # form[f.field] THEN 1 ELSE 0

\* the first validator of the HtmlValidate that value x does not satisfy, 0 if none
FirstBroken(x) ==
    LET bad(j) ==
            LET val == hv.validators[j] IN
            CASE val.kind = "MinValue" -> x < val.lit
              [] val.kind = "MaxValue" -> x > val.lit
              [] val.kind = "MinLength" -> Len(x) < val.lit
              [] val.kind = "MaxLength" -> Len(x) > val.lit
              [] val.kind = "Pattern" -> ~IsMatch(val.lit, x)
    IN  IF \E j \in 1..Len(hv.validators) : bad(j)
        THEN CHOOSE j \in 1..Len(hv.validators) : bad(j) /\ \A i \in 1..(j - 1) : ~bad(i)
        ELSE 0

\* C5: numeric bounds are inclusive in both evaluators: with min_value a and
\* max_value b the generated validate yields one TooSmall iff x < a and one TooLarge
\* iff x > b, and the HtmlForm validator rejects x iff x < min or x > max.
C5_InclusiveBounds ==
    /\ pc = "done" =>
        \A k \in 1..Len(fields) :
            LET f == fields[k]
                x == form[f.field]
            IN  (ty = "int" /\ x.some) =>
                  /\ \A a \in MinArgs :
                        HasRule(f, [kind |-> "ValueMin", n |-> a]) =>
                            Count(v, [error |-> "TooSmall", field |-> f.field, min |-> a])
                                = IF x.val < a
                                  THEN Count(f.attrs, [kind |-> "ValueMin", n |-> a])
                                  ELSE 0
                  /\ \A b \in MaxArgs :
                        HasRule(f, [kind |-> "ValueMax", n |-> b]) =>
                            Count(v, [error |-> "TooLarge", field |-> f.field, max |-> b])
                                = IF x.val > b
                                  THEN Count(f.attrs, [kind |-> "ValueMax", n |-> b])
                                  ELSE 0
    /\ (pc = "html_done" /\ ty = "int" /\ hvalue.some) =>
          /\ hret <=> FirstBroken(hvalue.val) = 0
          /\ (~hret /\ hv.name \notin DOMAIN last_op.errors) =>
                herrors[hv.name] =
                    GetError(hv.validators[FirstBroken(hvalue.val)], hv.errors)

\* min_value 2 and max_value 3: the value 3 is accepted, the bound included
C5_Witness ==
    /\ pc = "done"
    /\ fields[1].attrs = <<[kind |-> "ValueMin", n |-> 2], [kind |-> "ValueMax", n |-> 3]>>
    /\ form[fields[1].field] = Some(3)
    /\ ErrorsFor(v, fields[1].field) = <<>>

\* C8: every pattern rule fails with its own typed error when the pattern does not
\* match (Email: InvalidEmail, Phone: InvalidPhoneNumber, regex: InvalidRegex) and
\* yields nothing when it matches; no pattern rule is accepted unconditionally.
C8_PatternRules ==
    /\ (Ended /\ ~HasKind("Match")) =>
          \A k \in 1..Len(fields) : \A j \in 1..Len(fields[k].attrs) :
              LET f == fields[k]
                  rule == f.attrs[j]
              IN  rule.kind \in {"Email", "Phone", "Regex"} =>
                    /\ pc = "done"
                    /\ ~Absent(f, form) =>
                          Count(v, ErrorOf(rule, f.field))
                              = IF Breaks(rule, f.field, form)
                                THEN Count(f.attrs, rule) ELSE 0
    /\ (pc = "html_done" /\ ty = "str" /\ hvalue.some) =>
          (hret <=> FirstBroken(hvalue.val) = 0)

\* the entries of the set that carry the key
WithKey(set, key) == {e \in set : e.kind = "Pair" /\ e.key = key}

\* the call inserted one attribute
Inserted == pc = "builder" /\ last_op.call \in {"value", "attr", "class", "required", "optional"}

\* C9: in append mode, inserting Pair(k, v2) where Pair(k, v1) is present leaves
\* exactly one entry with key k, holding "v1 v2"; inserting a Single that is
\* present leaves the set unchanged.
C9_AppendMerge ==
    (Inserted /\ ~last_op.replace /\ last_op.old.some) =>
        IF last_op.attr.kind = "Pair"
        THEN WithKey(builder.attrs, last_op.attr.key)
                = {Pair(last_op.attr.key, Join(last_op.old.val.value, last_op.attr.value))}
        ELSE builder.attrs = last_op.before

\* C10: in replace mode, inserting Pair(k, v2) where Pair(k, v1) is present leaves
\* exactly one entry with key k, holding v2 only.
C10_ReplaceLaw ==
    (Inserted /\ last_op.replace /\ last_op.old.some /\ last_op.attr.kind = "Pair") =>
        WithKey(builder.attrs, last_op.attr.key) = {last_op.attr}

\* Pair(k, v2) has replaced a Pair(k, v1) with another value
C10_Witness ==
    /\ Inserted
    /\ last_op.replace
    /\ last_op.old.some
    /\ last_op.attr.kind = "Pair"
    /\ last_op.old.val.value # last_op.attr.value
    /\ WithKey(builder.attrs, last_op.attr.key) = {last_op.attr}

(* ------------------- HtmlFieldBuilder: the attribute set --------------- *)
\* identity as specified: the kind, and the key of a Pair or the value of a Single
SameIdentity(a, e) ==
    /\ a.kind = e.kind
    /\ a.kind = "Pair" => a.key = e.key
    /\ a.kind = "Single" => a.value = e.value

\* no two entries of the set have the same identity
Unique(set) == \A a \in set : \A e \in set : SameIdentity(a, e) => a = e

\* C11: after any sequence of builder operations the attribute set never holds two
\* Pair entries with the same key nor two Single entries with the same value.
C11_NoDuplicates ==
    /\ Unique(builder.attrs)
    /\ Unique(html_field.attrs)
    /\ \A n \in DOMAIN hform.fields : Unique(hform.fields[n].attrs)

\* a Pair was inserted in append mode over a Pair with the same key and another value
C11_Witness ==
    /\ Inserted
    /\ ~last_op.replace
    /\ last_op.attr.kind = "Pair"
    /\ last_op.old.some
    /\ last_op.old.val.value # last_op.attr.value
    /\ Cardinality(WithKey(builder.attrs, last_op.attr.key)) = 1

\* the attributes a builder call can make
Attributes ==
    {Single(x) : x \in SingleValues} \cup {Pair(k, w) : k \in Keys, w \in Words}

\* C12: two Pairs are equal iff their keys are equal, whatever their values; two
\* Singles are equal iff their values are equal; a Single never equals a Pair, even
\* when its value is the Pair's key; equal attributes hash equally.
C12_Identity ==
    /\ \A a \in Attributes \cup builder.attrs : \A e \in Attributes \cup builder.attrs :
          /\ Eq(a, e) <=> SameIdentity(a, e)
          /\ Eq(a, e) => HashOf(a) = HashOf(e)
    /\ Inserted =>
          (last_op.old.some <=> \E e \in last_op.before : SameIdentity(e, last_op.attr))

\* the Single `class` went into a set that holds a Pair with key `class`: not found equal
C12_Witness ==
    /\ Inserted
    /\ last_op.attr = Single(<<"class">>)
    /\ WithKey(last_op.before, "class") # {}
    /\ ~last_op.old.some
    /\ Single(<<"class">>) \in builder.attrs
    /\ WithKey(builder.attrs, "class") # {}

\* C13: replace() and append() change only the mode flag (tag, name and every
\* attribute stay as they were), and whether an insert overwrites an existing entry
\* depends only on the mode in effect at that insert, not on the mode in effect when
\* the entry was written.
C13_ModeToggle ==
    /\ (pc = "builder" /\ last_op.call \in {"replace", "append"}) =>
          builder = [last_op.before EXCEPT !.replace = (last_op.call = "replace")]
    /\ (Inserted /\ last_op.attr.kind = "Pair" /\ last_op.old.some
            /\ last_op.old.val.value # last_op.attr.value) =>
          (WithKey(builder.attrs, last_op.attr.key) = {last_op.attr} <=> last_op.replace)

\* an entry written in append mode was overwritten by an insert made after replace()
C13_Witness ==
    /\ Inserted
    /\ last_op.attr.kind = "Pair"
    /\ last_op.old.some
    /\ last_op.old.val.value # last_op.attr.value
    /\ ~last_op.old_mode
    /\ last_op.replace
    /\ WithKey(builder.attrs, last_op.attr.key) = {last_op.attr}

\* an entry written in replace mode was met by an insert made after append()
C13_WrittenInReplace ==
    /\ Inserted
    /\ last_op.attr.kind = "Pair"
    /\ last_op.old.some
    /\ last_op.old.val.value # last_op.attr.value
    /\ last_op.old_mode
    /\ ~last_op.replace

\* the entries of the set other than a Pair with the key
Without(set, key) == {e \in set : ~(e.kind = "Pair" /\ e.key = key)}

\* C14: a builder created with a field name n starts with exactly one Pair name=n;
\* with_attrs keeps every other supplied attribute and replaces the value of a
\* supplied `name` pair by n. Without a name no `name` pair is seeded: new yields
\* the empty set, with_attrs the supplied set unchanged.
C14_SeededName ==
    /\ last_op.call = "new" =>
          builder.attrs = IF last_op.name.some
                          THEN {Pair("name", last_op.name.val)} ELSE {}
    /\ last_op.call = "with_attrs" =>
          IF last_op.name.some
          THEN /\ WithKey(builder.attrs, "name") = {Pair("name", last_op.name.val)}
               /\ Without(builder.attrs, "name") = Without(last_op.set, "name")
          ELSE builder.attrs = last_op.set
    /\ last_op.call \in {"new", "with_attrs"} =>
          /\ builder.tag = last_op.tag
          /\ builder.name = last_op.name
          /\ ~builder.replace

\* with_attrs was given a name and a set that holds another `name` pair and a class
C14_Witness ==
    /\ last_op.call = "with_attrs"
    /\ last_op.name = Some(<<"user">>)
    /\ Pair("name", <<"x">>) \in last_op.set
    /\ Pair("class", <<"y">>) \in last_op.set
    /\ builder.attrs = {Pair("name", <<"user">>), Pair("class", <<"y">>)}

\* C15: required() adds the Single `required` and optional() removes it: after
\* optional() the set holds no Single `required`, whether or not required() was
\* called before, and every other attribute is unchanged.
C15_RequiredOptional ==
    /\ (Inserted /\ last_op.call = "required") =>
          builder.attrs = last_op.before \cup {Single(<<"required">>)}
    /\ (Inserted /\ last_op.call = "optional") =>
          builder.attrs = last_op.before \ {Single(<<"required">>)}

\* the messages of the two panic! arms of HtmlAttribute::merge
MergePanics ==
    {Panic("HtmlAttribute: merge failed: single -> pair"),
     Panic("HtmlAttribute: merge failed: pair -> single")}

\* C16: no builder operation panics; the kind-mismatch panic of merge is unreachable
\* through the builder, because merge is only called on two attributes that compare
\* equal, hence of one kind.
C16_NoPanic ==
    /\ panic_msg \notin MergePanics
    /\ \A e \in builder.attrs \cup html_field.attrs : e.kind \in {"Single", "Pair"}
    /\ (Inserted /\ last_op.old.some) => last_op.old.val.kind = last_op.attr.kind

\* merge has run in append mode on a Pair `class` while the set held a Single `class`
C16_Witness ==
    /\ Inserted
    /\ ~last_op.replace
    /\ last_op.attr.kind = "Pair"
    /\ last_op.attr.key = "class"
    /\ last_op.old.some
    /\ Single(<<"class">>) \in last_op.before
    /\ pc = "builder"

\* replace().attrs(O): the override O was applied to the set last_op.before
Overridden == pc = "builder" /\ last_op.call = "attrs" /\ last_op.replace

\* C17: applying an override set O to a base set B (replace().attrs(O)) leaves every
\* attribute of B whose identity is not in O unchanged, holds every attribute of O
\* with O's value, and nothing else; an override whose key is not in B is added.
C17_Override ==
    Overridden =>
        builder.attrs =
            {e \in last_op.before : \A o \in last_op.set : ~SameIdentity(e, o)}
                \cup last_op.set

\* the override changed one entry of the base, added one, and left one alone
C17_Witness ==
    /\ Overridden
    /\ \E o \in last_op.set : \E e \in last_op.before : SameIdentity(e, o) /\ e # o
    /\ \E o \in last_op.set : \A e \in last_op.before : ~SameIdentity(e, o)
    /\ \E e \in last_op.before : \A o \in last_op.set : ~SameIdentity(e, o)
    /\ last_op.set \subseteq builder.attrs

\* C19: applying an override set equal to the field's current attribute set A yields
\* A entry for entry (same keys, same values, nothing duplicated or concatenated),
\* so the rendered attributes are those of the render without overrides.
C19_RoundTrip ==
    (Overridden /\ last_op.set = last_op.before) =>
        /\ builder.attrs = last_op.before
        /\ {DisplayAttr(e) : e \in builder.attrs} = {DisplayAttr(e) : e \in last_op.before}

\* a set with a Pair and another entry was overridden with itself
C19_Witness ==
    /\ Overridden
    /\ last_op.set = last_op.before
    /\ Cardinality(last_op.before) >= 2
    /\ \E e \in last_op.before : e.kind = "Pair"
    /\ builder.attrs = last_op.before

\* C18: rendering and per-render customisation never change the stored schema:
\* whatever builder(name), the builder operations, finish() and the renders do, the
\* form stores the same fields with the same tag, name, mode and attributes, and
\* a later builder(name) call returns the stored baseline.
C18_SchemaUnchanged ==
    [][/\ hform' = hform
       /\ (last_op'.call = "builder" /\ pc' = "builder") =>
              builder' = hform.fields[last_op'.field]]_vars

\* builder(name) was called again after a customised field, differing from every
\* stored one, was finished and displayed: it returned the stored baseline
C18_Witness ==
    /\ pc = "builder"
    /\ last_op.call = "builder"
    /\ last_op.prev # NoField
    /\ \A n \in DOMAIN hform.fields : last_op.prev.attrs # hform.fields[n].attrs
    /\ builder = hform.fields[last_op.field]

\* C20: rendering a field emits the field's own tag name: for a field built with
\* tag t the output starts with "<t".
C20_OwnTag ==
    pc = "rendered" => (out[1] = "<" /\ out[2] = html_field.tag)

(* ----------------------------- rendering ------------------------------ *)
RECURSIVE RenderAll(_)
\* render() of the attributes, one after the other
RenderAll(order) ==
    IF order = <<>> THEN <<>> ELSE RenderAttr(Head(order)) \o RenderAll(Tail(order))

\* C21: rendering a field emits every attribute of its set exactly once and nothing
\* else between the tag and the closing ">": a Pair as " key='value'", a Single as
\* " value"; what Display writes for an attribute is that attribute's render().
C21_RenderAttrs ==
    pc = "rendered" =>
        \E order \in Orders(html_field.attrs) :
            SubSeq(out, 3, Len(out)) = RenderAll(order) \o <<">">>

\* a field with a Pair and a Single has been rendered
C21_Witness ==
    /\ pc = "rendered"
    /\ \E e \in html_field.attrs : e.kind = "Pair"
    /\ \E e \in html_field.attrs : e.kind = "Single"
    /\ out[Len(out)] = ">"

\* C22: the order in which a field's attributes are rendered is deterministic:
\* fields built by the same sequence of calls render their attributes in the same
\* order.
C22_SameOrder ==
    (pc = "form" /\ last_op.call = "display_form") =>
        \A n, m \in DOMAIN hform.fields :
            hform.fields[n] = hform.fields[m] => last_op.aorder[n] = last_op.aorder[m]

\* the stored fields in the order of their declaration
Declared == SelectSeq(DeclaredOrder, LAMBDA n : n \in DOMAIN hform.fields)

\* C23: rendering a form emits the rendering of each stored field exactly once, in
\* the order in which the fields were declared, each followed by a newline.
C23_DeclaredOrder ==
    (pc = "form" /\ last_op.call = "display_form") =>
        out = WriteFields(hform.fields, Declared, last_op.aorder)

\* C30: finish() preserves the builder's tag, field name and attribute set; the
\* replace/append mode has no effect on the finished field.
C30_FinishPreserves ==
    (pc = "finished" /\ last_op.call = "finish") =>
        /\ html_field.tag = last_op.before.tag
        /\ html_field.name = last_op.before.name
        /\ html_field.attrs = last_op.before.attrs

(* ------------------------------ validated ----------------------------- *)
\* C28: validated() is true only when the form has been successfully validated: it
\* is false on a new form, and after any sequence of validate_field calls it is
\* false whenever validation never occurred or some validate_field call so far had
\* a validator that rejected its value.
C28_ValidatedOnlyOnSuccess ==
    pc = "new_form" =>
        /\ (last_op.call = "new" => ~hform.validated)
        /\ (rejected => ~hform.validated)

(* --------------------------- error messages --------------------------- *)
\* the key under which a schema overrides the message of a rule kind
KindKey(kind) ==
    CASE kind = "MinValue" -> "min"
      [] kind = "MaxValue" -> "max"
      [] kind = "MinLength" -> "minlength"
      [] kind = "MaxLength" -> "maxlength"
      [] kind = "Pattern" -> "pattern"

\* C27: the message of a validator is the schema's override registered under the
\* key of its rule kind when there is one, and the default message of the kind
\* otherwise; a missing key does not fail, and an override for one kind does not
\* change the message of another kind.
C27_ErrorLookup ==
    pc \in {"html_ready", "html_done"} =>
        /\ Len(checks) = Len(hv.validators)
        /\ \A j \in DOMAIN checks :
              checks[j].err_msg =
                 IF KindKey(hv.validators[j].kind) \in DOMAIN hv.errors
                 THEN hv.errors[KindKey(hv.validators[j].kind)]
                 ELSE DefaultError(hv.validators[j])

\* a value failed a validator whose kind has an override, in a schema with a
\* validator of another kind that has none
C27_Witness ==
    /\ pc = "html_done"
    /\ ~hret
    /\ \E j \in DOMAIN checks :
          /\ KindKey(hv.validators[j].kind) \in DOMAIN hv.errors
          /\ herrors[hv.name] = hv.errors[KindKey(hv.validators[j].kind)]
    /\ \E j \in DOMAIN checks : KindKey(hv.validators[j].kind) \notin DOMAIN hv.errors
    /\ DOMAIN hv.errors # {}

\* the checks of the validator that reject the value
Rejecting(value) == {j \in DOMAIN checks : ~CheckFn(checks[j], value)}

\* C29: validate returns true iff every check accepts the value; on failure it
\* records the message of the first failing check under the validator's field only
\* if the errors map has no entry for that field yet, and leaves the entries of all
\* other fields unchanged; on success the errors map is unchanged.
C29_ValidateErrors ==
    (pc = "html_done" /\ last_op.call = "validate") =>
        LET before == last_op.errors
            bad == Rejecting(hvalue)
        IN  /\ hret = (bad = {})
            /\ hret => herrors = before
            /\ (~hret /\ hv.name \in DOMAIN before) => herrors = before
            /\ (~hret /\ hv.name \notin DOMAIN before) =>
                  /\ DOMAIN herrors = DOMAIN before \cup {hv.name}
                  /\ \A k \in DOMAIN before : herrors[k] = before[k]
                  /\ \E j \in bad :
                        /\ \A i \in bad : j <= i
                        /\ herrors[hv.name] = checks[j].err_msg

\* a second failure, of a check with another message, found the field's entry in
\* the map next to the entry of another field
C29_Witness ==
    /\ pc = "html_done"
    /\ last_op.call = "validate"
    /\ ~hret
    /\ hv.name \in DOMAIN last_op.errors
    /\ FieldNames[2] \in DOMAIN herrors
    /\ \E j \in Rejecting(hvalue) :
          /\ \A i \in Rejecting(hvalue) : j <= i
          /\ herrors[hv.name] # checks[j].err_msg

(* ---------------------------- regex registry -------------------------- *)
\* the rules parsed so far, of the finished fields and of the field being parsed
ParsedRules ==
    UNION {{fields[k].attrs[j] : j \in 1..Len(fields[k].attrs)} : k \in 1..Len(fields)} \cup
    {info.attrs[j] : j \in 1..Len(info.attrs)}

\* the pattern the canonical rule registers under its id
CanonicalPattern(id) == IF id = EmailId THEN EmailPattern ELSE PhonePattern

\* the step accepted an Email or Phone rule that registers under id
AcceptedCanonical(id) ==
    /\ pc = "parse"
    /\ pc' = "parse"
    /\ Len(info'.attrs) = Len(info.attrs) + 1
    /\ info'.attrs[Len(info'.attrs)].kind \in {"Email", "Phone"}
    /\ info'.attrs[Len(info'.attrs)].id = id

\* C24: during schema construction a registered pattern is never overwritten, and
\* every attempt to register an id that is present with a different pattern aborts
\* construction instead of being silently ignored, a declared id that coincides
\* with the canonical email or phone id included.
C24_DuplicateAborts ==
    [][/\ \A id \in DOMAIN regex_tokens :
             id \in DOMAIN regex_tokens' /\ regex_tokens'[id] = regex_tokens[id]
       /\ \A id \in {EmailId, PhoneId} :
             (ContainsKey(regex_tokens, id) /\ regex_tokens[id] # CanonicalPattern(id))
                => ~AcceptedCanonical(id)]_vars

\* C25: any number of Email (Phone) rules leaves exactly one registry entry under
\* the canonical email (phone) id, holding the canonical pattern, and every such
\* rule references that id.
C25_CanonicalEntry ==
    \A rule \in ParsedRules :
        rule.kind \in {"Email", "Phone"} =>
            /\ rule.id = (IF rule.kind = "Email" THEN EmailId ELSE PhoneId)
            /\ ContainsKey(regex_tokens, rule.id)
            /\ regex_tokens[rule.id] = CanonicalPattern(rule.id)

\* the rules of the finished schema, each with its position
Positions ==
    UNION {{<<k, j>> : j \in 1..Len(fields[k].attrs)} : k \in 1..Len(fields)}

RuleAt(p) == fields[p[1]].attrs[p[2]]

Earlier(p, q) == p[1] < q[1] \/ (p[1] = q[1] /\ p[2] < q[2])

\* the rule at p names an id instead of carrying a pattern: a Pattern rule whose id
\* is not of the generated form, or whose id an earlier rule registered
NamesId(p) ==
    /\ RuleAt(p).kind = "Regex"
    /\ \/ RuleAt(p).id \in {UserId, EmailId}
       \/ \E q \in Positions : Earlier(q, p) /\ RuleAt(q).kind = "Regex"
                                /\ RuleAt(q).id = RuleAt(p).id

\* C26: a rule compiled_regex = id is accepted only if the id was registered by a
\* validate_regex attribute of the struct, otherwise no validator is produced; and
\* every Pattern rule of a finished schema resolves to an entry of the registry.
C26_CompiledDeclared ==
    pc = "done" =>
        \A p \in Positions :
            /\ RuleAt(p).kind = "Regex" => ContainsKey(code.statics, RuleAt(p).id)
            /\ NamesId(p) => RuleAt(p).id \in declared

====
